---- MODULE Spec2Model ----
(***************************************************************************)
(* Model of the reliability and reassembly core of zenoh:                  *)
(*   - NBFTReliableSubscriber (zenoh-ext/src/nbftreliable_subscriber.rs)   *)
(*   - DefragBuffer (io/zenoh-transport/src/common/defragmentation.rs)     *)
(*                                                                         *)
(* Every handler of the subscriber runs with the states mutex held from    *)
(* its first statement to the point where it drops the lock, so each       *)
(* handler is one atomic action.  Option<T> is modelled as a set with at   *)
(* most one element: {} is None, {x} is Some(x).  source_sn values stay    *)
(* far below 2^64 - 1, so last_seq_num + 1 never overflows.                *)
(***************************************************************************)
EXTENDS Integers, Sequences, FiniteSets, Bags, TLC

\* ------------------------------------------------------------------ bounds
MaxSn == 4
MaxSnOther == 1
MaxQueries == 2
MaxTimers == 2
Capacity == 4
Resolution == 4
MaxSlice == 2

\* two publishers: p1 publishes source_sn 1..MaxSn, p2 only 1..MaxSnOther
Sources == {"p1", "p2"}
SNsOf(s) == IF s = "p1" THEN 1..MaxSn ELSE 1..MaxSnOther

\* ------------------------------------------------------------- Option<T>
None == {}
Some(x) == {x}
is_some(o) == o # {}
unwrap(o) == CHOOSE x \in o : TRUE

\* SourceInfo { source_id: Option<ZenohId>, source_sn: Option<ZInt> }; a sample
\* without source_id is handled the same way whatever its source_sn, so one
\* source_sn stands for all of them
Samples == UNION {{[source_id |-> Some(s), source_sn |-> Some(n)] : n \in SNsOf(s)} :
                  s \in Sources}
           \cup [source_id : {Some(s) : s \in Sources}, source_sn : {None}]
           \cup [source_id : {None}, source_sn : {None, Some(1)}]

VARIABLES
    states,      \* HashMap<ZenohId, InnerState>: a function on the known sources
    wait,        \* the bool next to the map, under the same mutex
    poisoned,    \* the mutex was held by a handler that panicked
    queries,     \* bag of the RepliesHandler alive (recovery queries in flight)
    issued,      \* the selector the last handler gave to session.get, if any
    calls,       \* the lock operations and outward calls of the last handler,
                 \* in program order
    logged,      \* the log records the last handler emitted
    bootstrap,   \* "none" | "inflight" | "done": the InitialRepliesHandler
    period,      \* periodic_query.is_some()
    timers,      \* number of TimedEvent registered per source_id
    delivered,   \* per source, the source_sn handed to the consumer callback
    direct,      \* number of samples without (source_id, source_sn) that the
                 \* last handler passed to callback
    losses,      \* number of "Sample missed" error lines logged
    replayed,    \* handle_sample has been called on a sample already delivered
    gapPermanent,\* per source, a flush has delivered over a missing source_sn
    db,          \* the DefragBuffer
    dbLog        \* the last call on the DefragBuffer: its arguments and result,
                 \* the buffer before it (pre), the bytes pushed with success
                 \* since the buffer was last emptied, before (pushed) and
                 \* after (run) the call, and the bytes given to the codec

subVars == <<states, wait, poisoned, queries, issued, calls, logged, bootstrap,
             period, timers,
             delivered, direct, losses, replayed, gapPermanent>>
dbVars == <<db, dbLog>>
vars == <<subVars, dbVars>>

\* InnerState as handle_sample creates it
NewInnerState == [last_seq_num |-> None, pending_queries |-> 0, pending_samples |-> {}]

Min(S) == CHOOSE x \in S : \A y \in S : x <= y
Max(S) == CHOOSE x \in S : \A y \in S : x >= y

\* pending_samples.drain().collect() followed by sort_by_key: the keys ascending
RECURSIVE SortByKey(_)
SortByKey(S) == IF S = {} THEN <<>> ELSE <<Min(S)>> \o SortByKey(S \ {Min(S)})

\* the `while let Some(s) = pending_samples.remove(&(last_seq_num + 1))` loop:
\* the source_sn delivered by it, in order
RECURSIVE DrainConsecutive(_, _)
DrainConsecutive(pending, last) ==
    IF (last + 1) \in pending
    THEN <<last + 1>> \o DrainConsecutive(pending \ {last + 1}, last + 1)
    ELSE <<>>

SeqToSet(q) == {q[i] : i \in 1..Len(q)}

\* mutant of DeliverAndDrain: the drain loop reads pending_samples with get
\* instead of remove, so the samples it delivers stay in the map
DeliverAndDrainKeep(state, source_sn) ==
    LET drained == DrainConsecutive(state.pending_samples, source_sn)
        out == <<source_sn>> \o drained
    IN [state |-> [state EXCEPT !.last_seq_num = Some(out[Len(out)])],
        out |-> out]

\* the in-order delivery of handle_sample: callback(sample), then the drain loop
DeliverAndDrain(state, source_sn) ==
    LET drained == DrainConsecutive(state.pending_samples, source_sn)
        out == <<source_sn>> \o drained
    IN [state |-> [state EXCEPT !.last_seq_num = Some(out[Len(out)]),
                                !.pending_samples = @ \ SeqToSet(drained)],
        out |-> out]

\* mutant of RouteInner: `source_sn < last + 1` instead of `!=`, so a sample
\* ahead of the next expected one is delivered at once
RouteInnerDeliverAhead(state, w, source_sn) ==
    IF w
    THEN [state |-> [state EXCEPT !.pending_samples = @ \cup {source_sn}], out |-> <<>>]
    ELSE IF is_some(state.last_seq_num) /\ source_sn < unwrap(state.last_seq_num) + 1
    THEN [state |-> state, out |-> <<>>]
    ELSE DeliverAndDrain(state, source_sn)

\* mutant of RouteInner: the wait flag is not looked at
RouteInnerIgnoreWait(state, w, source_sn) ==
    IF is_some(state.last_seq_num) /\ source_sn # unwrap(state.last_seq_num) + 1
    THEN IF source_sn > unwrap(state.last_seq_num)
         THEN [state |-> [state EXCEPT !.pending_samples = @ \cup {source_sn}], out |-> <<>>]
         ELSE [state |-> state, out |-> <<>>]
    ELSE DeliverAndDrain(state, source_sn)

\* mutant of RouteInner: a sample that is not the next one is buffered without
\* the `source_sn > last` test
RouteInnerNoDupCheck(state, w, source_sn) ==
    IF w \/ (is_some(state.last_seq_num) /\ source_sn # unwrap(state.last_seq_num) + 1)
    THEN [state |-> [state EXCEPT !.pending_samples = @ \cup {source_sn}], out |-> <<>>]
    ELSE DeliverAndDrain(state, source_sn)

\* mutant of RouteInner: `source_sn > last + 1` instead of `!=`, and no test of
\* `source_sn > last`: a sample at or below last_seq_num takes the delivery branch
RouteInnerRedeliver(state, w, source_sn) ==
    IF w \/ (is_some(state.last_seq_num) /\ source_sn > unwrap(state.last_seq_num) + 1)
    THEN [state |-> [state EXCEPT !.pending_samples = @ \cup {source_sn}], out |-> <<>>]
    ELSE DeliverAndDrain(state, source_sn)

\* handle_sample on the InnerState of the sample's source; `out` is the
\* sequence of source_sn passed to callback
RouteInner(state, w, source_sn) ==
    IF w
    THEN [state |-> [state EXCEPT !.pending_samples = @ \cup {source_sn}], out |-> <<>>]
    ELSE IF is_some(state.last_seq_num) /\ source_sn # unwrap(state.last_seq_num) + 1
    THEN IF source_sn > unwrap(state.last_seq_num)
         THEN [state |-> [state EXCEPT !.pending_samples = @ \cup {source_sn}], out |-> <<>>]
         ELSE [state |-> state, out |-> <<>>]
    ELSE DeliverAndDrain(state, source_sn)

\* mutant of handle_sample: the InnerState written back is stored under every
\* key of the map, not only under the sample's source_id
handle_sampleAllKeys(sts, w, sample) ==
    IF is_some(sample.source_id) /\ is_some(sample.source_sn)
    THEN LET source_id == unwrap(sample.source_id)
             source_sn == unwrap(sample.source_sn)
             new == source_id \in DOMAIN sts
             state == IF source_id \in DOMAIN sts THEN sts[source_id] ELSE NewInnerState
             r == RouteInner(state, w, source_sn)
         IN [states |-> [s \in DOMAIN sts \cup {source_id} |-> r.state],
             out |-> r.out, direct |-> 0, new |-> new]
    ELSE [states |-> sts, out |-> <<>>, direct |-> 1, new |-> TRUE]

\* fn handle_sample(states, wait, sample, callback) -> bool
\* result: the map afterwards; the source_sn passed to callback for the
\* sample's source, in order; the number of samples passed to callback
\* without a (source_id, source_sn) pair; the returned flag
handle_sample(sts, w, sample) ==
    IF is_some(sample.source_id) /\ is_some(sample.source_sn)
    THEN LET source_id == unwrap(sample.source_id)
             source_sn == unwrap(sample.source_sn)
             new == source_id \in DOMAIN sts
             state == IF source_id \in DOMAIN sts THEN sts[source_id] ELSE NewInnerState
             r == RouteInner(state, w, source_sn)
         IN [states |-> [s \in DOMAIN sts \cup {source_id} |->
                            IF s = source_id THEN r.state ELSE sts[s]],
             out |-> r.out, direct |-> 0, new |-> new]
    ELSE [states |-> sts, out |-> <<>>, direct |-> 1, new |-> TRUE]

\* fn seq_num_range(Some(start), None): the text of the _sn parameter
seq_num_range(start) == <<"_sn=", start, "..">>

\* mutant of Flush: the drained samples are not sorted (here: they come out of
\* the HashMap in descending key order)
RECURSIVE Descending(_)
Descending(S) == IF S = {} THEN <<>> ELSE <<Max(S)>> \o Descending(S \ {Max(S)})
FlushUnsorted(state) ==
    IF state.pending_samples = {}
    THEN [state |-> state, out |-> <<>>]
    ELSE LET out == Descending(state.pending_samples)
         IN [state |-> [state EXCEPT !.last_seq_num = Some(out[Len(out)]),
                                     !.pending_samples = {}],
             out |-> out]

\* mutant of Flush: last_seq_num does not follow the samples delivered
FlushKeepLast(state) ==
    [state |-> [state EXCEPT !.pending_samples = {}],
     out |-> SortByKey(state.pending_samples)]

\* the pending_samples.drain() / sort_by_key / for loop of the two drop
\* handlers: every pending sample goes to callback, keys ascending, and
\* last_seq_num follows each of them
Flush(state) ==
    IF state.pending_samples = {}
    THEN [state |-> state, out |-> <<>>]
    ELSE LET out == SortByKey(state.pending_samples)
         IN [state |-> [state EXCEPT !.last_seq_num = Some(out[Len(out)]),
                                     !.pending_samples = {}],
             out |-> out]

\* a flush that skips a source_sn: the delivered suffix does not continue the
\* last delivered source_sn one by one
LeavesGap(state) ==
    LET p == state.pending_samples
    IN /\ p # {}
       /\ \/ Max(p) - Min(p) + 1 # Cardinality(p)
          \/ is_some(state.last_seq_num) /\ Min(p) # unwrap(state.last_seq_num) + 1

\* the consumer's view after a handle_sample call on `sample`
Observe(sample, r) ==
    LET both == is_some(sample.source_id) /\ is_some(sample.source_sn)
    IN /\ delivered' = [s \in Sources |->
                          IF both /\ sample.source_id = Some(s)
                          THEN delivered[s] \o r.out ELSE delivered[s]]
       /\ direct' = r.direct
       /\ replayed' = (replayed \/ (both /\ unwrap(sample.source_sn) \in
                                        SeqToSet(delivered[unwrap(sample.source_id)])))

\* the RepliesHandler a recovery query owns until it terminates
RepliesHandler(source_id) == [source_id |-> source_id]

\* Selector::from(query_expr).with_parameters(&seq_num_range) of a recovery
\* query: query_expr is source_id / key_expr, the range starts after last_seq_num
RecoverySelector(source_id, last_seq_num) ==
    [query_expr |-> source_id, parameters |-> seq_num_range(unwrap(last_seq_num) + 1)]

InFlight == BagToSet(queries)

\* Selector::from(KeyExpr::try_from("*").unwrap() / &key_expr).with_parameters("0..")
\* of the history query: the parameter text is the literal 0.. with nothing
\* before the start
HistorySelector == [query_expr |-> "*", parameters |-> <<"", 0, "..">>]

\* log::error!("Sample missed: unable to retrieve some missing samples.")
SampleMissed ==
    [level |-> "error",
     message |-> "Sample missed: unable to retrieve some missing samples."]

\* ------------------------------------------- program order of the handlers
\* n invocations of the consumer callback
Callbacks(n) == [i \in 1..n |-> "callback"]

\* handle_sample: one callback(...) per sample it passes on
handle_sample_calls(r) == Callbacks(Len(r.out) + r.direct)

\* mutant of sub_callback_calls: drop(lock) comes after session.get
sub_callback_callsGetLocked(r, register, gap, ok) ==
    <<"lock">> \o handle_sample_calls(r)
    \o (IF register THEN <<"timer.add">> ELSE <<>>)
    \o (IF ~gap THEN <<"unlock">>
        ELSE IF ok THEN <<"session.get", "unlock">>
        ELSE <<"panic", "unlock">>)

\* sub_callback: zlock!, handle_sample, timer.add for a new source, then on a
\* gap either drop(lock) and session.get, or the panic of unwrap() which
\* unwinds through the guard
sub_callback_calls(r, register, gap, ok) ==
    <<"lock">> \o handle_sample_calls(r)
    \o (IF register THEN <<"timer.add">> ELSE <<>>)
    \o (IF ~gap THEN <<"unlock">>
        ELSE IF ok THEN <<"unlock", "session.get">>
        ELSE <<"panic", "unlock">>)

\* PeriodicQuery::run for a known source: zlock!, then drop(lock) and
\* session.get, or the panic of unwrap()
run_calls(ok) ==
    <<"lock">> \o (IF ok THEN <<"unlock", "session.get">> ELSE <<"panic", "unlock">>)

\* mutant of reply_calls: handle_sample is called without taking the lock
reply_callsNoLock(r) == handle_sample_calls(r)

\* the reply closures: zlock! and handle_sample in one statement block
reply_calls(r) == <<"lock">> \o handle_sample_calls(r) \o <<"unlock">>

\* mutant of RepliesHandler_drop_calls: log::error! is outside the test of
\* pending_samples and wait
RepliesHandler_drop_callsAlwaysLog(lost, out) ==
    <<"lock", "log::error">> \o Callbacks(Len(out)) \o <<"unlock">>

\* RepliesHandler::drop: zlock!, and on a loss log::error! then one callback
\* per pending sample
RepliesHandler_drop_calls(lost, out) ==
    <<"lock">> \o (IF lost THEN <<"log::error">> \o Callbacks(Len(out)) ELSE <<>>)
    \o <<"unlock">>

\* the orders in which states.iter_mut() may visit the sources
Orders(S) == {o \in [1..Cardinality(S) -> S] : \A i, j \in DOMAIN o : o[i] = o[j] => i = j}

\* InitialRepliesHandler::drop: zlock!, then for each source in the order of
\* the iteration one callback per pending sample and timer.add if a period is
\* configured
RECURSIVE InitialRepliesHandler_drop_body(_, _, _)
InitialRepliesHandler_drop_body(order, sts, per) ==
    IF order = <<>> THEN <<>>
    ELSE Callbacks(Cardinality(sts[Head(order)].pending_samples))
         \o (IF per THEN <<"timer.add">> ELSE <<>>)
         \o InitialRepliesHandler_drop_body(Tail(order), sts, per)
InitialRepliesHandler_drop_calls(order, sts, per) ==
    <<"lock">> \o InitialRepliesHandler_drop_body(order, sts, per) \o <<"unlock">>

\* zlock! on the poisoned mutex: lock() returns Err and unwrap() panics
zlock_poisoned_calls == <<"panic">>

\* ------------------------------------------------------------------ Init
\* NBFTReliableSubscriber::new: the map is empty and wait = conf.history; the
\* history query is issued before new returns
InitSub ==
    /\ states = << >>
    /\ wait \in BOOLEAN
    /\ bootstrap = IF wait THEN "inflight" ELSE "none"
    /\ period \in BOOLEAN
    /\ poisoned = FALSE
    /\ queries = EmptyBag
    /\ issued = IF wait THEN Some(HistorySelector) ELSE None
    /\ calls = IF wait THEN <<"session.get">> ELSE <<>>
    /\ logged = <<>>
    /\ timers = [s \in Sources |-> 0]
    /\ delivered = [s \in Sources |-> <<>>]
    /\ direct = 0
    /\ losses = 0
    /\ replayed = FALSE
    /\ gapPermanent = [s \in Sources |-> FALSE]

\* --------------------------------------------------------------- actions
\* sub_callback: the closure given to declare_subscriber
LiveSample(sample) ==
    /\ ~poisoned
    /\ \E r \in {handle_sample(states, wait, sample)} :
       LET source_id == sample.source_id
           sid == unwrap(source_id)
           register == is_some(source_id) /\ r.new /\ period
           gap == /\ is_some(source_id)
                  /\ sid \in DOMAIN r.states
                  /\ r.states[sid].pending_queries = 0
                  /\ r.states[sid].pending_samples # {}
           counted == [r.states EXCEPT ![sid].pending_queries = @ + 1]
       IN /\ register => timers[sid] < MaxTimers
          /\ gap => BagCardinality(queries) < MaxQueries
          /\ Observe(sample, r)
          /\ calls' = sub_callback_calls(r, register, gap,
                          gap /\ is_some(r.states[sid].last_seq_num))
          /\ timers' = IF register THEN [timers EXCEPT ![sid] = @ + 1] ELSE timers
          /\ IF ~gap
             THEN /\ states' = r.states
                  /\ issued' = None
                  /\ UNCHANGED <<queries, poisoned>>
             ELSE IF is_some(r.states[sid].last_seq_num)
             THEN /\ states' = counted
                  /\ queries' = queries (+) SetToBag({RepliesHandler(sid)})
                  /\ issued' = Some(RecoverySelector(sid, r.states[sid].last_seq_num))
                  /\ UNCHANGED poisoned
             ELSE \* last_seq_num.unwrap() panics with the lock held
                  /\ states' = counted
                  /\ poisoned' = TRUE
                  /\ issued' = None
                  /\ UNCHANGED queries
    /\ logged' = <<>>
    /\ UNCHANGED <<wait, bootstrap, period, losses, gapPermanent, dbVars>>

\* PeriodicQuery::run for a registered TimedEvent of source_id
Tick(source_id) ==
    /\ ~poisoned
    /\ timers[source_id] > 0
    /\ source_id \in DOMAIN states
    /\ BagCardinality(queries) < MaxQueries
    /\ states' = [states EXCEPT ![source_id].pending_queries = @ + 1]
    /\ IF is_some(states[source_id].last_seq_num)
       THEN /\ queries' = queries (+) SetToBag({RepliesHandler(source_id)})
            /\ issued' = Some(RecoverySelector(source_id, states[source_id].last_seq_num))
            /\ UNCHANGED poisoned
       ELSE \* last_seq_num.unwrap() panics with the lock held
            /\ poisoned' = TRUE
            /\ issued' = None
            /\ UNCHANGED queries
    /\ calls' = run_calls(is_some(states[source_id].last_seq_num))
    /\ logged' = <<>>
    /\ direct' = 0
    /\ UNCHANGED <<wait, bootstrap, period, timers, delivered, losses,
                   replayed, gapPermanent, dbVars>>

\* the reply callback of a recovery query in flight (sub_callback and
\* PeriodicQuery::run install the same closure, which reads nothing of the
\* query it belongs to)
Reply(sample) ==
    /\ ~poisoned
    /\ InFlight # {}
    /\ \E r \in {handle_sample(states, wait, sample)} :
          /\ Observe(sample, r)
          /\ states' = r.states
          /\ calls' = reply_calls(r)
    /\ logged' = <<>>
    /\ issued' = None
    /\ UNCHANGED <<wait, poisoned, queries, bootstrap, period, timers, losses,
                   gapPermanent, dbVars>>

\* the reply callback of the history query
InitialReply(sample) ==
    /\ ~poisoned
    /\ bootstrap = "inflight"
    /\ \E r \in {handle_sample(states, wait, sample)} :
          /\ Observe(sample, r)
          /\ states' = r.states
          /\ calls' = reply_calls(r)
    /\ logged' = <<>>
    /\ issued' = None
    /\ UNCHANGED <<wait, poisoned, queries, bootstrap, period, timers, losses,
                   gapPermanent, dbVars>>

\* impl Drop for RepliesHandler: the recovery query q terminates
RepliesHandlerDrop(q) ==
    /\ q \in InFlight
    /\ queries' = queries (-) SetToBag({q})
    /\ IF poisoned \/ q.source_id \notin DOMAIN states
       THEN /\ calls' = IF poisoned THEN zlock_poisoned_calls
                         ELSE RepliesHandler_drop_calls(FALSE, <<>>)
            /\ logged' = <<>>
            /\ UNCHANGED <<states, delivered, losses, gapPermanent>>
       ELSE LET state == [states[q.source_id] EXCEPT !.pending_queries = @ - 1]
                lost == state.pending_samples # {} /\ ~wait
                f == IF lost THEN Flush(state) ELSE [state |-> state, out |-> <<>>]
            IN /\ states' = [states EXCEPT ![q.source_id] = f.state]
               /\ delivered' = [delivered EXCEPT ![q.source_id] = @ \o f.out]
               /\ losses' = IF lost THEN losses + 1 ELSE losses
               /\ logged' = IF lost THEN <<SampleMissed>> ELSE <<>>
               /\ calls' = RepliesHandler_drop_calls(lost, f.out)
               /\ gapPermanent' = [gapPermanent EXCEPT
                                     ![q.source_id] = @ \/ (lost /\ LeavesGap(state))]
    /\ direct' = 0
    /\ issued' = None
    /\ UNCHANGED <<wait, poisoned, bootstrap, period, timers, replayed, dbVars>>

\* impl Drop for InitialRepliesHandler: the history query terminates
InitialRepliesHandlerDrop ==
    /\ bootstrap = "inflight"
    /\ bootstrap' = "done"
    /\ IF poisoned
       THEN /\ calls' = zlock_poisoned_calls
            /\ UNCHANGED <<states, wait, timers, delivered, gapPermanent>>
       ELSE /\ \E order \in Orders(DOMAIN states) :
                 calls' = InitialRepliesHandler_drop_calls(order, states, period)
            /\ period => \A s \in DOMAIN states : timers[s] < MaxTimers
            /\ states' = [s \in DOMAIN states |-> Flush(states[s]).state]
            /\ delivered' = [s \in Sources |->
                               IF s \in DOMAIN states
                               THEN delivered[s] \o Flush(states[s]).out
                               ELSE delivered[s]]
            /\ gapPermanent' = [s \in Sources |->
                               IF s \in DOMAIN states
                               THEN gapPermanent[s] \/ LeavesGap(states[s])
                               ELSE gapPermanent[s]]
            /\ timers' = [s \in Sources |->
                               IF period /\ s \in DOMAIN states
                               THEN timers[s] + 1 ELSE timers[s]]
            /\ wait' = FALSE
    /\ direct' = 0
    /\ issued' = None
    /\ logged' = <<>>
    /\ UNCHANGED <<poisoned, queries, period, losses, replayed, dbVars>>

\* =========================================================== DefragBuffer
Bytes == {0, 1}
RECURSIVE SeqsUpTo(_)
SeqsUpTo(n) ==
    IF n = 0 THEN {<<>>}
    ELSE LET shorter == SeqsUpTo(n - 1)
         IN shorter \cup {Append(q, b) : q \in {x \in shorter : Len(x) = n - 1}, b \in Bytes}
\* the ZSlice a fragment carries
ZSlices == SeqsUpTo(MaxSlice)

\* SeqNum (super::seq_num): a value below its resolution
SeqNumMake(value, resolution) == [value |-> value, resolution |-> resolution]
SeqNumGet(sn) == sn.value
SeqNumIncrement(sn) == [sn EXCEPT !.value = (@ + 1) % sn.resolution]
SeqNumSetOk(sn, value) == value < sn.resolution
SeqNumSet(sn, value) == [sn EXCEPT !.value = value]

\* ZBuf::push_zslice, ZBuf::clear, ZBuf::is_empty and the reader's content: the
\* buffer is the concatenation of the slices it holds
ZBufPush(buffer, zslice) == buffer \o zslice
ZBufEmpty == <<>>

\* DefragBuffer::make(reliability, sn_resolution, capacity)
make(sn_resolution, capacity) ==
    [sn |-> SeqNumMake(0, sn_resolution), capacity |-> capacity, len |-> 0,
     buffer |-> ZBufEmpty]

\* DefragBuffer::is_empty
is_empty(d) == d.buffer = ZBufEmpty

\* mutant of clear: the accumulated length is not reset
clearKeepLen(d) == [d EXCEPT !.buffer = ZBufEmpty]

\* DefragBuffer::clear
clear(d) == [d EXCEPT !.len = 0, !.buffer = ZBufEmpty]

\* DefragBuffer::sync
sync(d, sn) ==
    IF SeqNumSetOk(d.sn, sn)
    THEN [db |-> [d EXCEPT !.sn = SeqNumSet(d.sn, sn)], res |-> "Ok"]
    ELSE [db |-> d, res |-> "Err"]

\* DefragBuffer::push
push(d, sn, zslice) ==
    IF sn # SeqNumGet(d.sn)
    THEN [db |-> clear(d), res |-> "OutOfSequence"]
    ELSE LET grown == [d EXCEPT !.len = @ + Len(zslice)]
         IN IF grown.len > grown.capacity
            THEN [db |-> clear(grown), res |-> "Overflow"]
            ELSE [db |-> [grown EXCEPT !.buffer = ZBufPush(@, zslice),
                                       !.sn = SeqNumIncrement(@)],
                  res |-> "Ok"]

\* DefragBuffer::defragment: the bytes the codec reads, and the buffer afterwards
defragment(d) == [db |-> [d EXCEPT !.buffer = ZBufEmpty], input |-> d.buffer]

\* Zenoh060Reliability::read(reader).ok(): the codec accepts the bytes or not;
\* nothing can be decoded from no bytes
CodecAccepts(input) == IF input = <<>> THEN {FALSE} ELSE BOOLEAN

NoCall == [op |-> "make", sn |-> 0, zslice |-> <<>>, res |-> "Ok",
           pre |-> make(Resolution, Capacity), pushed |-> <<>>, run |-> <<>>,
           input |-> <<>>]

InitDefrag ==
    /\ db = make(Resolution, Capacity)
    /\ dbLog = NoCall

Push(sn, zslice) ==
    LET r == push(db, sn, zslice)
    IN /\ db' = r.db
       /\ dbLog' = [op |-> "push", sn |-> sn, zslice |-> zslice, res |-> r.res,
                    pre |-> db, pushed |-> dbLog.run,
                    run |-> IF r.res = "Ok" THEN dbLog.run \o zslice ELSE <<>>,
                    input |-> <<>>]
       /\ UNCHANGED subVars

Defragment ==
    LET r == defragment(db)
    IN \E ok \in CodecAccepts(r.input) :
          /\ db' = r.db
          /\ dbLog' = [op |-> "defragment", sn |-> 0, zslice |-> <<>>,
                       res |-> IF ok THEN "Some" ELSE "None",
                       pre |-> db, pushed |-> dbLog.run, run |-> <<>>,
                       input |-> r.input]
          /\ UNCHANGED subVars

Clear ==
    /\ db' = clear(db)
    /\ dbLog' = [op |-> "clear", sn |-> 0, zslice |-> <<>>, res |-> "Ok",
                 pre |-> db, pushed |-> dbLog.run, run |-> <<>>, input |-> <<>>]
    /\ UNCHANGED subVars

Sync(sn) ==
    LET r == sync(db, sn)
    IN /\ db' = r.db
       /\ dbLog' = [op |-> "sync", sn |-> sn, zslice |-> <<>>, res |-> r.res,
                    pre |-> db, pushed |-> dbLog.run, run |-> dbLog.run,
                    input |-> <<>>]
       /\ UNCHANGED subVars

\* ========================================================= specifications
Init == InitSub /\ InitDefrag

\* the subscriber: its callbacks, timer events and drop handlers
Next ==
    \/ \E sample \in Samples : LiveSample(sample)
    \/ \E source_id \in Sources : Tick(source_id)
    \/ \E sample \in Samples : Reply(sample)
    \/ \E sample \in Samples : InitialReply(sample)
    \/ \E q \in InFlight : RepliesHandlerDrop(q)
    \/ InitialRepliesHandlerDrop

Spec == Init /\ [][Next]_vars

\* the DefragBuffer of one link, owned by its transport reader task
InitD == Init /\ ~wait /\ ~period

NextD ==
    \/ \E sn \in 0..(Resolution - 1), zslice \in ZSlices : Push(sn, zslice)
    \/ Defragment
    \/ Clear
    \/ \E sn \in 0..Resolution : Sync(sn)

SpecDefrag == InitD /\ [][NextD]_vars

\* ================================================================ claims
Count(q, n) == Cardinality({i \in 1..Len(q) : q[i] = n})
Ascending(q) == \A i, j \in 1..Len(q) : i < j => q[i] < q[j]
Consecutive(q) == \A i \in 1..(Len(q) - 1) : q[i + 1] = q[i] + 1
HasBoth(sample) == is_some(sample.source_id) /\ is_some(sample.source_sn)
\* a step in which handle_sample is called on `sample`
Routes(sample) == LiveSample(sample) \/ Reply(sample) \/ InitialReply(sample)
\* a step in which the recovery query q terminates
Terminates(q) == q \in InFlight /\ queries' = queries (-) SetToBag({q})

\* C1: for every source, whatever the interleaving of live samples, replies,
\* ticks, recovery-query terminations and the bootstrap termination, the
\* source_sn handed to the consumer callback are strictly ascending: nothing is
\* delivered twice, nothing is delivered after a higher source_sn.
C1_DeliveryStrictlyAscending == \A s \in Sources : Ascending(delivered[s])

\* reached: after the bootstrap flush and a loss flush a source has several
\* deliveries, and a sample already delivered has been routed again
C1_Witness ==
    /\ bootstrap = "done"
    /\ losses > 0
    /\ replayed
    /\ \E s \in Sources : Len(delivered[s]) >= 3

\* C2: for a source no flush has left a gap for (no gap has become permanent),
\* every source_sn delivered after the first is the previous one plus one.
C2_GapFreeDelivery ==
    \A s \in Sources : ~gapPermanent[s] => Consecutive(delivered[s])

\* reached: without periodic queries, a recovery query is in flight for a source
\* (a gap was seen on the live path) whose MaxSn samples were all delivered
C2_Witness ==
    /\ ~period
    /\ \E s \in DOMAIN states :
          /\ ~gapPermanent[s]
          /\ states[s].pending_queries > 0
          /\ Len(delivered[s]) = MaxSn

\* C3: while wait is true the consumer callback has not been invoked for any
\* sample carrying source_id and source_sn, on whichever path it arrived.
C3_NoDeliveryWhileWait == wait => \A s \in Sources : delivered[s] = <<>>

\* reached: the bootstrap is in progress and samples of a source are buffered
C3_Witness ==
    /\ wait
    /\ bootstrap = "inflight"
    /\ \E s \in DOMAIN states : Cardinality(states[s].pending_samples) >= 2

\* C4: when the bootstrap query terminates, every sample buffered during the
\* bootstrap (live or reply) is delivered, per source in ascending source_sn
\* order, last_delivered_sn becomes the highest one delivered, pending_samples
\* is empty for every source and wait is false.
C4_BootstrapFlushesEverything ==
    [][(bootstrap = "inflight" /\ bootstrap' = "done") =>
         /\ wait' = FALSE
         /\ DOMAIN states' = DOMAIN states
         /\ \A s \in DOMAIN states :
               /\ delivered'[s] = delivered[s] \o SortByKey(states[s].pending_samples)
               /\ states'[s].pending_samples = {}
               /\ states[s].pending_samples # {} =>
                     states'[s].last_seq_num = Some(Max(states[s].pending_samples))]_vars

\* C5: when a recovery query of a source terminates while the source's
\* pending_samples is non-empty and wait is false, a loss event is logged, every
\* pending sample is delivered in strictly ascending source_sn order,
\* pending_samples becomes empty and last_delivered_sn the highest one drained.
C5_LossFlush ==
    [][\A q \in InFlight :
         (/\ Terminates(q)
          /\ ~wait
          /\ q.source_id \in DOMAIN states
          /\ states[q.source_id].pending_samples # {}) =>
            LET s == q.source_id
                pending == states[s].pending_samples
                old == delivered[s]
                new == delivered'[s]
            IN /\ losses' = losses + 1
               /\ Len(new) = Len(old) + Cardinality(pending)
               /\ SubSeq(new, 1, Len(old)) = old
               /\ {new[i] : i \in (Len(old) + 1)..Len(new)} = pending
               /\ Ascending(SubSeq(new, Len(old) + 1, Len(new)))
               /\ states'[s].pending_samples = {}
               /\ states'[s].last_seq_num = Some(Max(pending))]_vars

\* reached: a loss has been logged and the flush delivered two samples at once
C5_Witness ==
    /\ losses > 0
    /\ delivered["p1"] = <<1, 3, 4>>
    /\ states["p1"].pending_samples = {}

\* C6 as stated: once handle_sample has been called on a sample, it has been
\* delivered exactly once (or is held in pending_samples, to be delivered).
C6_ExactlyOnce ==
    [][\A sample \in Samples :
         (HasBoth(sample) /\ Routes(sample)) =>
            LET s == unwrap(sample.source_id)
                n == unwrap(sample.source_sn)
            IN \/ Count(delivered'[s], n) = 1
               \/ n \in states'[s].pending_samples]_vars

\* C6 amended: routing a sample any number of times gives at most one
\* invocation of the consumer callback for its (source_id, source_sn); it gives
\* none only while the sample is held in pending_samples or when its source_sn
\* is below last_delivered_sn (out of window: it is dropped).
C6_AtMostOnce ==
    [][/\ \A s \in Sources : \A n \in SNsOf(s) : Count(delivered'[s], n) <= 1
       /\ \A s \in Sources : \A n \in SNsOf(s) :
            LET sample == [source_id |-> Some(s), source_sn |-> Some(n)]
                accounted ==
                    /\ s \in DOMAIN states'
                    /\ \/ Count(delivered'[s], n) = 1
                       \/ n \in states'[s].pending_samples
                       \/ /\ is_some(states'[s].last_seq_num)
                          /\ n < unwrap(states'[s].last_seq_num)
            IN accounted \/ ~Routes(sample)]_vars

\* reached: a sample already delivered has been routed again
C6_Witness == replayed /\ \E s \in Sources : Len(delivered[s]) >= 2

\* ---------------------------------------------------------- DefragBuffer
\* the last call was a push carrying the expected SeqNum
PushInSequence == dbLog.op = "push" /\ dbLog.sn = SeqNumGet(dbLog.pre.sn)
\* the last call was a push carrying another SeqNum
PushOutOfSequence == dbLog.op = "push" /\ dbLog.sn # SeqNumGet(dbLog.pre.sn)

\* C7: from an empty buffer (made, cleared or left by a defragment), pushes
\* with contiguous SeqNums whose slices total at most capacity all succeed, and
\* the defragment that follows decodes the concatenation of the pushed slices
\* and leaves the buffer empty.
C7_ContiguousPushesDecode ==
    /\ (PushInSequence /\ Len(dbLog.pushed) + Len(dbLog.zslice) <= Capacity) =>
          /\ dbLog.res = "Ok"
          /\ db.buffer = dbLog.pushed \o dbLog.zslice
    /\ dbLog.op = "defragment" =>
          /\ dbLog.input = dbLog.pushed
          /\ is_empty(db)

\* C8: after defragment, whether decoding succeeded or not, the buffer is as
\* clear() leaves it: no fragments, accumulated length 0, SeqNum kept.
C8_DefragmentClears ==
    dbLog.op = "defragment" =>
        /\ db = clear(dbLog.pre)
        /\ db.buffer = <<>>
        /\ db.len = 0

\* C9 as stated: a push with another SeqNum than the expected one fails with
\* OutOfSequence, leaves the buffer empty (no fragments, length 0) and resets
\* the expected SeqNum (to its initial value, or to the SeqNum received).
C9_OutOfSequenceResets ==
    PushOutOfSequence =>
        /\ dbLog.res = "OutOfSequence"
        /\ db.buffer = <<>>
        /\ db.len = 0
        /\ SeqNumGet(db.sn) \in {0, dbLog.sn}

\* C9 amended: a push with another SeqNum than the expected one fails with
\* OutOfSequence and leaves the buffer empty (no fragments, length 0); the
\* expected SeqNum is left as it was (only sync changes it).
C9_OutOfSequenceClears ==
    PushOutOfSequence =>
        /\ dbLog.res = "OutOfSequence"
        /\ db.buffer = <<>>
        /\ db.len = 0
        /\ db.sn = dbLog.pre.sn

\* reached: fragments were held, the expected SeqNum had advanced, and a push
\* with a wrong SeqNum has just failed
C9_Witness ==
    /\ PushOutOfSequence
    /\ dbLog.res = "OutOfSequence"
    /\ dbLog.pre.buffer # <<>>
    /\ SeqNumGet(dbLog.pre.sn) \notin {0, dbLog.sn}

\* C10: a push with the expected SeqNum succeeds and retains the slice when
\* the bytes held for the message plus the slice are at most capacity (equal
\* included); otherwise it fails with Overflow and retains nothing; a
\* defragment of the emptied buffer returns no message.
C10_CapacityCheck ==
    /\ PushInSequence =>
          IF Len(dbLog.pre.buffer) + Len(dbLog.zslice) <= Capacity
          THEN dbLog.res = "Ok" /\ db.buffer = dbLog.pre.buffer \o dbLog.zslice
          ELSE dbLog.res = "Overflow" /\ db.buffer = <<>> /\ db.len = 0
    /\ (dbLog.op = "defragment" /\ is_empty(dbLog.pre)) => dbLog.res = "None"

\* ------------------------------------------------- locking of the handlers
\* the handler holds the states mutex when it makes its i-th call
LockHeldAt(i) ==
    \E j \in 1..(i - 1) :
        calls[j] = "lock" /\ \A k \in (j + 1)..(i - 1) : calls[k] # "unlock"
Called(name) == \E i \in DOMAIN calls : calls[i] = name

\* C11: whenever a handler issues a query (sub_callback on a gap,
\* PeriodicQuery::run, the history query of new), it does not hold the states
\* mutex at the call of session.get: it has released the lock it took before.
C11_QueryIssuedUnlocked ==
    /\ is_some(issued) <=> Called("session.get")
    /\ \A i \in DOMAIN calls : calls[i] = "session.get" => ~LockHeldAt(i)

\* reached: sub_callback has taken the lock, passed a sample on, released the
\* lock and issued a recovery query while another query was in flight
C11_Witness ==
    /\ is_some(issued)
    /\ Called("callback")
    /\ calls[1] = "lock"
    /\ BagCardinality(queries) = 2

\* C12: every invocation of the consumer callback is made by a handler that
\* holds the states mutex at that moment.
C12_CallbackUnderLock ==
    \A i \in DOMAIN calls : calls[i] = "callback" => LockHeldAt(i)

\* reached: a loss flush has passed two samples to the callback under the lock
C12_Witness ==
    /\ Called("log::error")
    /\ Cardinality({i \in DOMAIN calls : calls[i] = "callback"}) >= 2

\* C13: for a sample with source_id and source_sn, handle_sample returns true
\* exactly when the call created the InnerState of the source (the source was
\* not in the map before), so sub_callback registers the periodic query of a
\* source on the first sample seen from it and on no later one.
C13_NewOnFirstSight ==
    [][\A sample \in Samples :
         (HasBoth(sample) /\ LiveSample(sample)) =>
            LET s == unwrap(sample.source_id)
                first == s \notin DOMAIN states
            IN /\ handle_sample(states, wait, sample).new = first
               /\ period => (timers'[s] = timers[s] + 1 <=> first)
               /\ Called("timer.add")' <=> (period /\ first)]_vars

\* C14: in every reachable state, for every source, pending_queries is the
\* number of recovery queries launched for the source and not yet terminated
\* (the RepliesHandler of the source that are alive); it is never negative.
C14_PendingQueriesCountsInFlight ==
    \A s \in DOMAIN states :
        /\ states[s].pending_queries = CopiesIn(RepliesHandler(s), queries)
        /\ states[s].pending_queries >= 0

\* one call of sub_callback, as the reactive trigger is described: a live
\* sample that ends up buffered while its source has no query in flight makes sub_callback launch exactly one recovery query for the source,
\* with the range _sn=(last_seq_num + 1).. and pending_queries = 1 afterwards;
\* a live sample routed while a query of the source is in flight, or delivered
\* in order with nothing left pending, launches no query.
ReactiveStep ==
       \A sample \in Samples :
         (HasBoth(sample) /\ LiveSample(sample)) =>
            LET s == unwrap(sample.source_id)
                n == unwrap(sample.source_sn)
                pq == IF s \in DOMAIN states THEN states[s].pending_queries ELSE 0
                buffered == n \in states'[s].pending_samples
                inOrder == /\ delivered'[s] # delivered[s]
                           /\ states'[s].pending_samples = {}
                gets == {i \in DOMAIN calls' : calls'[i] = "session.get"}
            IN /\ (buffered /\ pq = 0) =>
                     /\ queries' = queries (+) SetToBag({RepliesHandler(s)})
                     /\ Cardinality(gets) = 1
                     /\ is_some(states'[s].last_seq_num)
                     /\ issued' = Some([query_expr |-> s,
                                        parameters |-> <<"_sn=",
                                            unwrap(states'[s].last_seq_num) + 1, "..">>])
                     /\ states'[s].pending_queries = 1
               /\ (pq > 0 \/ inOrder) =>
                     /\ queries' = queries
                     /\ gets = {}
                     /\ issued' = None

\* C15: every step of the subscriber is as ReactiveStep says: a live sample
\* that leaves a gap with no query in flight launches exactly one recovery query
\* from last_seq_num + 1, and the live path launches no query otherwise.
C15_ReactiveRecovery == [][ReactiveStep]_vars

\* one run of PeriodicQuery::run for a known source, as the periodic trigger is
\* described
TickStep ==
    \A s \in Sources :
        Tick(s) =>
            LET gets == {i \in DOMAIN calls' : calls'[i] = "session.get"}
            IN /\ states'[s].pending_queries = states[s].pending_queries + 1
               /\ queries' = queries (+) SetToBag({RepliesHandler(s)})
               /\ Cardinality(gets) = 1
               /\ is_some(states[s].last_seq_num)
               /\ issued' = Some([query_expr |-> s,
                                  parameters |-> <<"_sn=",
                                      unwrap(states[s].last_seq_num) + 1, "..">>])
               /\ ~Called("panic")'
               /\ ~poisoned'

\* C16: every periodic tick of a registered probe for a known source adds one
\* to the source's pending_queries and issues exactly one recovery query with
\* the range _sn=(last_seq_num + 1).., whether or not another query of the
\* source is in flight, and completes without failure.
C16_PeriodicTick == [][TickStep]_vars

\* one call of handle_sample on a sample without source_sn, as described: the
\* sample goes to the callback at once, no InnerState is created or changed,
\* the returned flag does not announce a new source, and sub_callback starts
\* no periodic query and launches nothing because of it
NoSourceSnStep ==
    \A sample \in Samples :
        (sample.source_sn = None /\ Routes(sample)) =>
            /\ direct' = 1
            /\ Cardinality({i \in DOMAIN calls' : calls'[i] = "callback"}) = 1
            /\ states' = states
            /\ delivered' = delivered
            /\ handle_sample(states, wait, sample).new = FALSE
            /\ timers' = timers
            /\ ~Called("timer.add")'
            /\ queries' = queries

\* C17: a sample that carries no source_sn is delivered to the consumer
\* immediately, also while wait is true, and affects no state; the value
\* handle_sample returns does not make the caller treat it as the first sight
\* of a source, so no periodic probe is started because of it.
C17_NoSourceSnNoEffect == [][NoSourceSnStep]_vars

\* C18: in every reachable state, for every source whose last_seq_num is set,
\* every key of pending_samples is strictly greater than last_seq_num, and
\* pending_samples holds no source_sn already delivered to the consumer.
C18_PendingAboveLast ==
    \A s \in DOMAIN states :
        /\ is_some(states[s].last_seq_num) =>
              \A k \in states[s].pending_samples : k > unwrap(states[s].last_seq_num)
        /\ states[s].pending_samples \cap SeqToSet(delivered[s]) = {}

\* reached: a source has delivered samples, holds a sample ahead of a gap, and
\* a sample already delivered has been routed again
C18_Witness ==
    /\ replayed
    /\ \E s \in DOMAIN states :
          /\ is_some(states[s].last_seq_num)
          /\ Len(delivered[s]) >= 2
          /\ states[s].pending_samples # {}

\* C19: when history is requested, the query new issues is addressed to
\* * / key_expr with the parameter text _sn=0.., the text seq_num_range gives
\* for the start 0 and an open end.
C19_HistorySelector ==
    (bootstrap = "inflight" /\ calls = <<"session.get">>) =>
        /\ is_some(issued)
        /\ unwrap(issued).query_expr = "*"
        /\ unwrap(issued).parameters = seq_num_range(0)

\* one termination of a recovery query that flushes pending samples, as the
\* loss event is described: one record, carrying the source and the first and
\* last source_sn that were skipped
LossEventStep ==
    \A q \in InFlight :
        (/\ Terminates(q)
         /\ ~poisoned
         /\ ~wait
         /\ q.source_id \in DOMAIN states
         /\ states[q.source_id].pending_samples # {}) =>
            LET state == states[q.source_id]
            IN /\ Len(logged') = 1
               /\ {"source_id", "lost_range_start", "lost_range_end"}
                     \subseteq DOMAIN logged'[1]
               /\ logged'[1].source_id = q.source_id
               /\ logged'[1].lost_range_start = unwrap(state.last_seq_num) + 1
               /\ logged'[1].lost_range_end = Min(state.pending_samples) - 1

\* C20: every permanent-loss flush (a recovery query terminating with pending
\* samples and wait false) emits exactly one loss event that identifies the
\* loss as (source_id, lost_range_start, lost_range_end).
C20_LossEventFields == [][LossEventStep]_vars

\* one call of sub_callback while wait is true on a sample with source_id and
\* source_sn, as the bootstrap buffering is described
WaitBufferStep ==
    \A sample \in Samples :
        (wait /\ HasBoth(sample) /\ LiveSample(sample)) =>
            LET s == unwrap(sample.source_id)
                n == unwrap(sample.source_sn)
                pq == IF s \in DOMAIN states THEN states[s].pending_queries ELSE 0
            IN /\ n \in states'[s].pending_samples
               /\ delivered' = delivered
               /\ states'[s].pending_queries = pq
               /\ queries' = queries
               /\ ~Called("session.get")'
               /\ ~Called("panic")'
               /\ ~poisoned'

\* C21: while wait is true, sub_callback on a sample with source_id and
\* source_sn only buffers it: the sample is in pending_samples afterwards, the
\* callback returns normally, no recovery query is launched, pending_queries is
\* unchanged and last_seq_num is not unwrapped while it is None.
C21_WaitOnlyBuffers == [][WaitBufferStep]_vars

\* handle_sample is called, with wait false, on a sample whose source_sn is not
\* above the last_seq_num of its source
RoutesOld(sample) ==
    /\ ~wait
    /\ HasBoth(sample)
    /\ unwrap(sample.source_id) \in DOMAIN states
    /\ is_some(states[unwrap(sample.source_id)].last_seq_num)
    /\ unwrap(sample.source_sn) <= unwrap(states[unwrap(sample.source_id)].last_seq_num)
    /\ Routes(sample)

\* one routing of such a sample, as the silent drop is described: handle_sample
\* passes nothing to the callback and returns the map as it was, so the step
\* delivers nothing and leaves last_seq_num and pending_samples of every source
\* as they were; on the reply paths, where nothing follows handle_sample, the
\* whole map is unchanged
SilentDropStep ==
    \A sample \in Samples :
        RoutesOld(sample) =>
            LET r == handle_sample(states, wait, sample)
            IN /\ r.out = <<>>
               /\ r.direct = 0
               /\ r.states = states
               /\ delivered' = delivered
               /\ ~Called("callback")'
               /\ DOMAIN states' = DOMAIN states
               /\ \A b \in DOMAIN states :
                     /\ states'[b].last_seq_num = states[b].last_seq_num
                     /\ states'[b].pending_samples = states[b].pending_samples
               /\ (Reply(sample) \/ InitialReply(sample)) => states' = states

\* C22: with wait false, routing a sample whose source_sn is at or below the
\* last_seq_num of its source is a silent drop: the consumer callback is not
\* invoked and handle_sample leaves last_seq_num, pending_samples and
\* pending_queries of every source unchanged.
C22_SilentDrop == [][SilentDropStep]_vars

\* reached: with wait false a sample already delivered has been routed again
\* and the last handler passed nothing to the callback, while the source holds
\* a sample ahead of a gap
C22_Witness ==
    /\ replayed
    /\ ~wait
    /\ calls = <<"lock", "unlock">>
    /\ \E s \in DOMAIN states :
          Len(delivered[s]) >= 2 /\ states[s].pending_samples # {}

\* one termination of a recovery query while nothing is pending for its source
\* (or while wait is true), as the silent termination is described
SilentTerminationStep ==
    \A q \in InFlight :
        (/\ Terminates(q)
         /\ q.source_id \in DOMAIN states
         /\ (wait \/ states[q.source_id].pending_samples = {})) =>
            /\ states' = [states EXCEPT ![q.source_id].pending_queries = @ - 1]
            /\ delivered' = delivered
            /\ losses' = losses
            /\ logged' = <<>>
            /\ calls' = <<"lock", "unlock">>

\* C23: when a recovery query terminates while pending_samples of its source
\* is empty (or while wait is true), pending_queries of the source is
\* decremented by one and nothing else changes: nothing is delivered, no loss
\* is logged, last_seq_num and pending_samples stay as they were.
C23_SilentTermination == [][SilentTerminationStep]_vars

\* reached: without period and history, p1 has delivered 1, 2, 3 with no sample
\* routed twice and no loss, no query is left in flight, and the last handler
\* took the lock and called nothing: it is the termination of the query that
\* recovered the gap
C23_Witness ==
    /\ ~period
    /\ bootstrap = "none"
    /\ ~replayed
    /\ losses = 0
    /\ queries = EmptyBag
    /\ calls = <<"lock", "unlock">>
    /\ delivered["p1"] = <<1, 2, 3>>

\* the subscriber with the scheduling the termination of queries relies on:
\* every query that was launched terminates (its RepliesHandler is dropped),
\* and so does the history query
SpecLive ==
    /\ Init
    /\ [][Next]_vars
    /\ \A s \in Sources : WF_vars(RepliesHandlerDrop(RepliesHandler(s)))
    /\ WF_vars(InitialRepliesHandlerDrop)

\* C24: no sample is withheld forever: with wait false, every sample held in
\* pending_samples of a source is eventually delivered to the consumer,
\* provided every launched recovery query eventually terminates.
C24_NoSampleWithheld ==
    \A s \in Sources : \A n \in SNsOf(s) :
        (~wait /\ s \in DOMAIN states /\ n \in states[s].pending_samples)
            ~> (n \in SeqToSet(delivered[s]))

\* C25: when a period is configured, at most one periodic query is ever
\* registered with the timer for a source_id, over any run, with or without
\* history.
C25_OneTimerPerSource == period => \A s \in Sources : timers[s] <= 1

\* every other source b keeps its InnerState (or stays unknown) and gets no
\* delivery in this step
OthersUntouched(a) ==
    \A b \in Sources \ {a} :
        /\ b \in DOMAIN states' <=> b \in DOMAIN states
        /\ b \in DOMAIN states => states'[b] = states[b]
        /\ delivered'[b] = delivered[b]

\* one step on behalf of a source a: handle_sample on a live or reply sample
\* of a, a tick of a's periodic query, or the termination of a recovery query
\* of a
IndependenceStep ==
    /\ \A sample \in Samples :
          (is_some(sample.source_id) /\ Routes(sample)) =>
              OthersUntouched(unwrap(sample.source_id))
    /\ \A a \in Sources :
          (Tick(a) \/ Terminates(RepliesHandler(a))) => OthersUntouched(a)

\* C26: sources are independent: routing a live or reply sample of a source,
\* a periodic tick for it, or the termination of one of its recovery queries
\* leaves last_seq_num, pending_samples and pending_queries of every other
\* source unchanged and delivers no sample of another source.
C26_SourcesIndependent == [][IndependenceStep]_vars

\* reached: both sources have deliveries, p1 holds a sample ahead of a gap
\* with a recovery query in flight, and a periodic query of p2 is in flight
\* at the same time
C26_Witness ==
    /\ Len(delivered["p1"]) >= 2
    /\ Len(delivered["p2"]) >= 1
    /\ "p1" \in DOMAIN states
    /\ states["p1"].pending_samples # {}
    /\ RepliesHandler("p1") \in InFlight
    /\ RepliesHandler("p2") \in InFlight
    /\ timers["p2"] > 0

====
